---- MODULE Spec2Model ----
(***************************************************************************)
(* Model of compare_xml.py: WrappedElement, XMLUniquePath and XMLCompare.  *)
(*                                                                         *)
(* A Python str is a sequence of one-character strings.  A document is a   *)
(* sequence of element records in document order (the order of            *)
(* root.iter()); element i has a parent index (0 for the root element),    *)
(* a tag, an attribute list in document order (pairs <<name, value>>) and  *)
(* a text, which is None or Some(str).                                     *)
(***************************************************************************)
EXTENDS Integers, Sequences, FiniteSets, TLC

(***************************************************************************)
(* root1, root2, special_attribs, max_text_len: the constructor arguments. *)
(* pc: where the constructor is ("unique"/"built" for XMLUniquePath alone; *)
(* "paths1", "paths2", "only1", "only2", "shared", "done" for XMLCompare;  *)
(* "raised" after an exception).  elem: the position of the running        *)
(* `for elem in self.root.iter()`.  lookup: how the last call of           *)
(* _replace_trans left.  trans_table: _trans_table of the XMLUniquePath    *)
(* being built.  paths1, paths2: _paths1.paths, _paths2.paths.             *)
(* diff_items: XMLCompare.diff_items.                                      *)
(***************************************************************************)
VARIABLES root1, root2, special_attribs, max_text_len,
          pc, elem, lookup, trans_table, paths1, paths2, diff_items

vars == <<root1, root2, special_attribs, max_text_len,
          pc, elem, lookup, trans_table, paths1, paths2, diff_items>>

\* Largest number of elements of a generated document.
MaxNodes == 3

\* max_text_len ranges over 1..MaxTextLen in the XMLUniquePath runs.
MaxTextLen == 3

\* XMLCompare.__init__'s default for max_text_len.
DefaultMaxTextLen == 80

---------------------------------------------------------------------------
(* Python values *)

\* elem.text is None
None == <<>>

\* elem.text is the str s
Some(s) == <<s>>

\* The empty dict {}: the function with the empty domain.
EmptyDict == [k \in {} |-> <<>>]

\* str.replace('\n', '').replace('/', '') of line 151
Sanitize(s) ==
    LET no_nl == SelectSeq(s, LAMBDA c : c # "\n")
    IN  SelectSeq(no_nl, LAMBDA c : c # "/")

\* Variant of Truncate that keeps n characters: unique_str[:max_text_len]
TruncateKeepN(s, n) ==
    IF Len(s) > n THEN SubSeq(s, 1, n) ELSE s

\* lines 152-153: if len(unique_str) > max_text_len: unique_str[:max_text_len - 1]
Truncate(s, n) ==
    IF Len(s) > n THEN SubSeq(s, 1, n - 1) ELSE s

\* str.rfind(ch): the 0-based index of the last occurrence of ch, or -1
RFind(s, ch) ==
    LET hits == {i \in 1..Len(s) : s[i] = ch}
    IN  IF hits = {} THEN -1
        ELSE (CHOOSE i \in hits : \A j \in hits : j <= i) - 1

RECURSIVE StrReplace(_, _, _)
\* str.replace(old, new): every non-overlapping occurrence, left to right
StrReplace(s, old, new) ==
    IF Len(old) = 0
    THEN IF Len(s) = 0 THEN new
         ELSE new \o <<Head(s)>> \o StrReplace(Tail(s), old, new)
    ELSE IF Len(s) < Len(old) THEN s
    ELSE IF SubSeq(s, 1, Len(old)) = old
         THEN new \o StrReplace(SubSeq(s, Len(old) + 1, Len(s)), old, new)
         ELSE <<Head(s)>> \o StrReplace(Tail(s), old, new)

---------------------------------------------------------------------------
(* lxml element access *)

\* key in elem.attrib
AttribHas(attrib, key) == \E j \in 1..Len(attrib) : attrib[j][1] = key

\* elem.attrib[key]
AttribGet(attrib, key) ==
    attrib[CHOOSE j \in 1..Len(attrib) : attrib[j][1] = key][2]

\* dict(elem.attrib): the unordered name -> value mapping
AttribDict(attrib) == {attrib[j] : j \in 1..Len(attrib)}

\* The decimal digits of a sibling position.
Digits == <<"1", "2", "3", "4", "5", "6", "7", "8", "9">>

\* Elements of tree with the parent and the tag of element i (i included).
SameNameSiblings(tree, i) ==
    {j \in 1..Len(tree) : tree[j].parent = tree[i].parent /\ tree[j].tag = tree[i].tag}

RECURSIVE GetPath(_, _)
\* root.getpath(element i): /tag per level, with [k] when the element has
\* siblings of the same tag (k its 1-based position among them)
GetPath(tree, i) ==
    LET same == SameNameSiblings(tree, i)
        occur == Cardinality({j \in same : j <= i})
        seg == <<"/">> \o tree[i].tag \o
               (IF Cardinality(same) > 1 THEN <<"[", Digits[occur], "]">> ELSE <<>>)
    IN  IF tree[i].parent = 0 THEN seg ELSE GetPath(tree, tree[i].parent) \o seg

---------------------------------------------------------------------------
(* WrappedElement *)

\* WrappedElement(elem) for element i of document doc
WrappedElement(doc, tree, i) ==
    [element |-> [doc |-> doc, id |-> i, tag |-> tree[i].tag,
                  attrib |-> tree[i].attrib, text |-> tree[i].text]]

\* WrappedElement.__eq__
WrappedEq(w1, w2) ==
    /\ AttribDict(w1.element.attrib) = AttribDict(w2.element.attrib)
    /\ w1.element.text = w2.element.text

\* Variant of WrappedHash: object identity, the hash of a class without __hash__
WrappedHashIdentity(w) == [items |-> <<>>, text |-> <<w.element.doc, w.element.id>>]

\* WrappedElement.__hash__: hash(tuple(attrib.items() + [text])).  The hash
\* of a tuple is a function of the tuple and is modelled by the tuple
\* (items in document order, then the text); collisions are left out.
WrappedHash(w) == [items |-> w.element.attrib, text |-> w.element.text]

\* Membership of a wrapper in a Python set: same hash, then __eq__.
PySetContains(s, w) ==
    \E m \in s : WrappedHash(m) = WrappedHash(w) /\ WrappedEq(m, w)

RECURSIVE PySet(_)
\* set(list): the members kept when the list is inserted left to right
PySet(list) ==
    IF list = <<>> THEN {}
    ELSE LET front == PySet(SubSeq(list, 1, Len(list) - 1))
             last == list[Len(list)]
         IN  IF PySetContains(front, last) THEN front ELSE front \cup {last}

\* Variant of PySetNe that compares the lists themselves: list1 != list2,
\* element by element with __eq__
ListNe(list1, list2) ==
    \/ Len(list1) # Len(list2)
    \/ \E j \in 1..Len(list1) : ~WrappedEq(list1[j], list2[j])

\* set(list1) != set(list2): sizes differ or a member of one is not in the other
PySetNe(list1, list2) ==
    LET s1 == PySet(list1)
        s2 == PySet(list2)
    IN  \/ Cardinality(s1) # Cardinality(s2)
        \/ \E w \in s1 : ~PySetContains(s2, w)

---------------------------------------------------------------------------
(* XMLUniquePath *)

\* d[k] = v on a dict
DictPut(d, k, v) == [x \in DOMAIN d \cup {k} |-> IF x = k THEN v ELSE d[x]]

RECURSIVE SpecialAttribValue(_, _)
\* lines 143-147: the value of the first name of special_attribs that the
\* element has, '' when it has none
SpecialAttribValue(attrib, keys) ==
    IF keys = <<>> THEN <<>>
    ELSE IF AttribHas(attrib, Head(keys)) THEN AttribGet(attrib, Head(keys))
    ELSE SpecialAttribValue(attrib, Tail(keys))

\* lines 143-149: step 1 and 2, the text when unique_str is still ''
UniqueFragment(e, special) ==
    LET matched == SpecialAttribValue(e.attrib, special)
    IN  IF matched = <<>> /\ e.text # None /\ Len(e.text[1]) > 0
        THEN e.text[1]
        ELSE matched

\* lines 143-153: unique_str after sanitizing and limiting
unique_str(e, special, maxlen) ==
    Truncate(Sanitize(UniqueFragment(e, special)), maxlen)

\* What _replace_trans returns when self._trans_table[''] raises KeyError.
KeyError == <<"KeyError">>

RECURSIVE ReplaceTransLoop(_, _, _)
\* lines 114-121: the loop that lops off the last /xxxxx; strips counts the
\* executions of line 121
ReplaceTransLoop(table, new_path, strips) ==
    IF Len(new_path) = 0
    THEN [kind |-> "exhausted", key |-> new_path, strips |-> strips]
    ELSE IF new_path \in DOMAIN table
    THEN [kind |-> "found", key |-> new_path, strips |-> strips]
    ELSE LET back_one == RFind(new_path, "/")
         IN  IF back_one <= 0
             THEN [kind |-> "fallback", key |-> new_path, strips |-> strips]
             ELSE ReplaceTransLoop(table, SubSeq(new_path, 1, back_one), strips + 1)

\* lines 112-121: which way _replace_trans leaves
ReplaceTransLookup(table, path) ==
    IF Cardinality(DOMAIN table) = 0
    THEN [kind |-> "empty_table", key |-> path, strips |-> 0]
    ELSE ReplaceTransLoop(table, path, 0)

\* XMLUniquePath._replace_trans
replace_trans(table, path) ==
    LET found == ReplaceTransLookup(table, path)
    IN  CASE found.kind = "empty_table" -> path
          [] found.kind = "fallback" -> path
          [] found.kind = "found" -> StrReplace(path, found.key, table[found.key])
          [] found.kind = "exhausted" -> KeyError

\* line 154-155: the argument of _replace_trans
ParentRawPath(tree, i) ==
    IF tree[i].parent = 0 THEN <<>> ELSE GetPath(tree, tree[i].parent)

\* Variant of TransTableKey that keys the table by the translation itself
TransTableKeyTranslated(tree, i, translated_path) == translated_path

\* line 157: the key of the element's translation, self.root.getpath(elem)
TransTableKey(tree, i, translated_path) == GetPath(tree, i)

\* Variant of PathsAdd that replaces the list instead of appending to it
PathsAddOverwrite(paths, translated_path, w) ==
    DictPut(paths, translated_path, <<w>>)

\* lines 158-162: step 8
PathsAdd(paths, translated_path, w) ==
    IF translated_path \in DOMAIN paths
    THEN [paths EXCEPT ![translated_path] = Append(@, w)]
    ELSE DictPut(paths, translated_path, <<w>>)

\* lines 154-156: step 5 and 6
TranslatedPath(table, tree, i, special, maxlen) ==
    replace_trans(table, ParentRawPath(tree, i)) \o <<"/">> \o tree[i].tag
        \o unique_str(tree[i], special, maxlen)

\* One iteration of the loop of _create_path_tree (lines 142-162) for
\* element i of tree: the new trans_table and paths.
create_path_tree(doc, tree, i, special, maxlen, table, paths) ==
    LET translated_path == TranslatedPath(table, tree, i, special, maxlen)
    IN  [trans_table |-> DictPut(table, TransTableKey(tree, i, translated_path), translated_path),
         paths |-> PathsAdd(paths, translated_path, WrappedElement(doc, tree, i))]

\* The lookup of the iteration raises KeyError.
Raises(table, tree, i) ==
    ReplaceTransLookup(table, ParentRawPath(tree, i)).kind = "exhausted"

---------------------------------------------------------------------------
(* Documents and configurations *)

RECURSIVE AncestorsOrSelf(_, _)
\* Element j and the elements above it, for the parent vector p.
AncestorsOrSelf(p, j) ==
    {j} \cup (IF p[j] = 0 THEN {} ELSE AncestorsOrSelf(p, p[j]))

\* Parent vectors of the documents of n elements listed in document order.
Shapes(n) ==
    {p \in [1..n -> 0..(n - 1)] :
        /\ p[1] = 0
        /\ \A i \in 2..n : p[i] >= 1 /\ p[i] < i
        /\ \A i \in 2..n : p[i] \in AncestorsOrSelf(p, i - 1)}

\* Documents of n elements, the root element from rootKinds, the rest from kinds.
TreesOf(n, rootKinds, kinds) ==
    {[i \in 1..n |-> [parent |-> p[i], tag |-> ks[i].tag,
                      attrib |-> ks[i].attrib, text |-> ks[i].text]] :
        p \in Shapes(n),
        ks \in {f \in [1..n -> rootKinds \cup kinds] :
                    f[1] \in rootKinds /\ \A i \in 2..n : f[i] \in kinds}}

Trees(rootKinds, kinds) == UNION {TreesOf(n, rootKinds, kinds) : n \in 1..MaxNodes}

\* Element contents of the XMLUniquePath runs.
UniqueKinds ==
    { [tag |-> <<"a">>, attrib |-> <<>>, text |-> None],
      [tag |-> <<"a">>, attrib |-> << <<"n", <<>>>> >>, text |-> Some(<<"t", "u">>)],
      [tag |-> <<"a">>, attrib |-> << <<"n", <<"x", "/", "y", "z">>>>, <<"v", <<"w">>>> >>,
       text |-> Some(<<"t">>)],
      [tag |-> <<"b">>, attrib |-> << <<"v", <<"w">>>>, <<"n", <<"x", "/", "y", "z">>>> >>,
       text |-> Some(<<>>)],
      [tag |-> <<"b">>, attrib |-> <<>>, text |-> Some(<<"t", "\n", "u", "v", "w">>)] }

\* special_attribs of the XMLUniquePath runs.
UniqueSpecials == { <<>>, <<"n">>, <<"n", "v">>, <<"v", "n">> }

---------------------------------------------------------------------------
(* XMLUniquePath(root1, special_attribs, max_text_len) on its own *)

\* _replace_trans has not been called yet.
NoLookup == [kind |-> "none", key |-> <<>>, strips |-> 0]

InitUnique ==
    /\ root1 \in Trees(UniqueKinds, UniqueKinds)
    /\ root2 = <<>>
    /\ special_attribs \in UniqueSpecials
    /\ max_text_len \in 1..MaxTextLen
    /\ pc = "unique"
    /\ elem = 1
    /\ lookup = NoLookup
    /\ trans_table = EmptyDict
    /\ paths1 = EmptyDict
    /\ paths2 = EmptyDict
    /\ diff_items = EmptyDict

\* One element of `for elem in self.root.iter()`.
UniqueStep ==
    /\ pc = "unique"
    /\ elem <= Len(root1)
    /\ lookup' = ReplaceTransLookup(trans_table, ParentRawPath(root1, elem))
    /\ IF Raises(trans_table, root1, elem)
       THEN /\ pc' = "raised"
            /\ UNCHANGED <<elem, trans_table, paths1>>
       ELSE LET next == create_path_tree(1, root1, elem, special_attribs, max_text_len,
                                         trans_table, paths1)
            IN  /\ trans_table' = next.trans_table
                /\ paths1' = next.paths
                /\ elem' = elem + 1
                /\ pc' = IF elem = Len(root1) THEN "built" ELSE "unique"
    /\ UNCHANGED <<root1, root2, special_attribs, max_text_len, paths2, diff_items>>

\* The loop of _create_path_tree.
NextUnique == UniqueStep

\* XMLUniquePath built for one document.
SpecUnique == InitUnique /\ [][NextUnique]_vars

---------------------------------------------------------------------------
(* XMLCompare *)

\* {'root1': list1}
EntryRoot1(list1) == [r \in {"root1"} |-> list1]

\* {'root2': list2}
EntryRoot2(list2) == [r \in {"root2"} |-> list2]

\* {'root1': list1, 'root2': list2}
EntryBoth(list1, list2) ==
    [r \in {"root1", "root2"} |-> IF r = "root1" THEN list1 ELSE list2]

\* diff_items[key] = new[key] for every key of new
DictUpdate(d, new) ==
    [k \in DOMAIN d \cup DOMAIN new |-> IF k \in DOMAIN new THEN new[k] ELSE d[k]]

\* line 206: paths1_set - paths2_set
KeysOnlyIn1(p1, p2) == DOMAIN p1 \ DOMAIN p2

\* line 209: paths2_set - paths1_set
KeysOnlyIn2(p1, p2) == DOMAIN p2 \ DOMAIN p1

\* lines 212-213: the shared keys whose lists differ as sets
KeysDiffering(p1, p2) ==
    {key \in DOMAIN p1 \cap DOMAIN p2 : PySetNe(p1[key], p2[key])}

\* XMLCompare.the_same
the_same == Cardinality(DOMAIN diff_items) = 0

\* Element contents of the XMLCompare runs, below a root element <r>.
CompareRootKinds == { [tag |-> <<"r">>, attrib |-> <<>>, text |-> None] }

\* Two elements equal but for the order of their attributes, and a third
\* with another value of n and a text.
CompareKinds ==
    { [tag |-> <<"a">>, attrib |-> << <<"n", <<"x", "y">>>>, <<"v", <<"w">>>> >>, text |-> None],
      [tag |-> <<"a">>, attrib |-> << <<"v", <<"w">>>>, <<"n", <<"x", "y">>>> >>, text |-> None],
      [tag |-> <<"a">>, attrib |-> << <<"n", <<"z", "y">>>> >>, text |-> Some(<<"t">>)] }

\* special_attribs of the XMLCompare runs.
CompareSpecials == { <<>>, <<"n">> }

\* max_text_len of the XMLCompare runs: the default, and 1, which empties
\* every fragment longer than one character.
CompareMaxLens == {1, DefaultMaxTextLen}

\* XMLCompare(root1, root2, special_attribs, max_text_len) at line 183
Init ==
    /\ root1 \in Trees(CompareRootKinds, CompareKinds)
    /\ root2 \in Trees(CompareRootKinds, CompareKinds)
    /\ special_attribs \in CompareSpecials
    /\ max_text_len \in CompareMaxLens
    /\ pc = "paths1"
    /\ elem = 1
    /\ lookup = NoLookup
    /\ trans_table = EmptyDict
    /\ paths1 = EmptyDict
    /\ paths2 = EmptyDict
    /\ diff_items = EmptyDict

\* line 184: one element of the loop of XMLUniquePath(root1, ...)
Paths1Step ==
    /\ pc = "paths1"
    /\ elem <= Len(root1)
    /\ lookup' = ReplaceTransLookup(trans_table, ParentRawPath(root1, elem))
    /\ IF Raises(trans_table, root1, elem)
       THEN /\ pc' = "raised"
            /\ UNCHANGED <<elem, trans_table, paths1>>
       ELSE LET next == create_path_tree(1, root1, elem, special_attribs, max_text_len,
                                         trans_table, paths1)
            IN  /\ paths1' = next.paths
                /\ IF elem = Len(root1)
                   THEN /\ pc' = "paths2"
                        /\ elem' = 1
                        /\ trans_table' = EmptyDict
                   ELSE /\ pc' = "paths1"
                        /\ elem' = elem + 1
                        /\ trans_table' = next.trans_table
    /\ UNCHANGED <<root1, root2, special_attribs, max_text_len, paths2, diff_items>>

\* line 185: one element of the loop of XMLUniquePath(root2, ...)
Paths2Step ==
    /\ pc = "paths2"
    /\ elem <= Len(root2)
    /\ lookup' = ReplaceTransLookup(trans_table, ParentRawPath(root2, elem))
    /\ IF Raises(trans_table, root2, elem)
       THEN /\ pc' = "raised"
            /\ UNCHANGED <<elem, trans_table, paths2>>
       ELSE LET next == create_path_tree(2, root2, elem, special_attribs, max_text_len,
                                         trans_table, paths2)
            IN  /\ paths2' = next.paths
                /\ trans_table' = next.trans_table
                /\ elem' = elem + 1
                /\ pc' = IF elem = Len(root2) THEN "only1" ELSE "paths2"
    /\ UNCHANGED <<root1, root2, special_attribs, max_text_len, paths1, diff_items>>

\* lines 206-207
CompareOnlyIn1 ==
    /\ pc = "only1"
    /\ diff_items' = DictUpdate(diff_items,
          [key \in KeysOnlyIn1(paths1, paths2) |-> EntryRoot1(paths1[key])])
    /\ pc' = "only2"
    /\ UNCHANGED <<root1, root2, special_attribs, max_text_len, elem, lookup,
                   trans_table, paths1, paths2>>

\* lines 209-210
CompareOnlyIn2 ==
    /\ pc = "only2"
    /\ diff_items' = DictUpdate(diff_items,
          [key \in KeysOnlyIn2(paths1, paths2) |-> EntryRoot2(paths2[key])])
    /\ pc' = "shared"
    /\ UNCHANGED <<root1, root2, special_attribs, max_text_len, elem, lookup,
                   trans_table, paths1, paths2>>

\* lines 212-214
CompareShared ==
    /\ pc = "shared"
    /\ diff_items' = DictUpdate(diff_items,
          [key \in KeysDiffering(paths1, paths2) |-> EntryBoth(paths1[key], paths2[key])])
    /\ pc' = "done"
    /\ UNCHANGED <<root1, root2, special_attribs, max_text_len, elem, lookup,
                   trans_table, paths1, paths2>>

\* XMLCompare.__init__: the two path maps, then _compare.
Next ==
    \/ Paths1Step
    \/ Paths2Step
    \/ CompareOnlyIn1
    \/ CompareOnlyIn2
    \/ CompareShared

\* XMLCompare built for two documents.
Spec == Init /\ [][Next]_vars

---------------------------------------------------------------------------
(* Properties of XMLUniquePath, checked under SpecUnique *)

\* The elements of root1 the loop has gone through.
Processed == 1..(elem - 1)

RECURSIVE SyntheticPath(_, _)
\* The synthetic path of element i of root1 as the specification defines it:
\* the synthetic path of the parent ('' above the root element), "/", the
\* tag and the sanitized, limited fragment.
SyntheticPath(tree, i) ==
    (IF tree[i].parent = 0 THEN <<>> ELSE SyntheticPath(tree, tree[i].parent))
        \o <<"/">> \o tree[i].tag \o unique_str(tree[i], special_attribs, max_text_len)

\* The processed elements whose synthetic path is key.
ElementsAt(key) == {i \in Processed : SyntheticPath(root1, i) = key}

RECURSIVE SumOfLengths(_, _)
\* The sum of the lengths of the lists of keys.
SumOfLengths(paths, keys) ==
    IF keys = {} THEN 0
    ELSE LET key == CHOOSE k \in keys : TRUE
         IN  Len(paths[key]) + SumOfLengths(paths, keys \ {key})

\* C10: Path Map conservation. Every processed element is wrapped exactly
\* once, under its synthetic path (the parent's synthetic path + "/" + tag +
\* fragment): the keys are the synthetic paths of the processed elements, the
\* list of a key holds each element of that path once and nothing else, no
\* list is empty, the lengths sum to the number of processed elements (all
\* of them once the traversal is over), and no error is raised.
C10_PathMapConservation ==
    /\ pc \in {"unique", "built"}
    /\ pc = "built" => Processed = 1..Len(root1)
    /\ DOMAIN paths1 = {SyntheticPath(root1, i) : i \in Processed}
    /\ \A key \in DOMAIN paths1 :
          /\ Len(paths1[key]) >= 1
          /\ Len(paths1[key]) = Cardinality(ElementsAt(key))
          /\ {paths1[key][j].element.id : j \in 1..Len(paths1[key])} = ElementsAt(key)
          /\ \A j \in 1..Len(paths1[key]) :
                paths1[key][j] = WrappedElement(1, root1, paths1[key][j].element.id)
    /\ SumOfLengths(paths1, DOMAIN paths1) = Cardinality(Processed)

\* The traversal of a document of three elements is over and one path is
\* not unique.
C10_Witness ==
    /\ pc = "built"
    /\ Len(root1) = 3
    /\ \E key \in DOMAIN paths1 : Len(paths1[key]) > 1
    /\ \E key \in DOMAIN paths1 : Len(paths1[key]) = 1

\* C9: parent before child. When an element below the root element is about
\* to be processed, the raw path of its parent is a key of the Translation
\* Table, _replace_trans finds it without stripping a segment and returns
\* the parent's synthetic path; for the root element it returns ''. The
\* lookup made for the element processed last stripped nothing and did not
\* fall back to the raw path.
C9_ParentBeforeChild ==
    /\ pc # "raised"
    /\ lookup.kind \in {"none", "empty_table", "found"}
    /\ lookup.strips = 0
    /\ lookup.kind = "empty_table" => lookup.key = <<>> /\ elem = 2
    /\ (pc = "unique" /\ elem <= Len(root1)) =>
          LET raw == ParentRawPath(root1, elem)
              found == ReplaceTransLookup(trans_table, raw)
          IN  IF root1[elem].parent = 0
              THEN replace_trans(trans_table, raw) = <<>>
              ELSE /\ raw \in DOMAIN trans_table
                   /\ found.kind = "found" /\ found.key = raw /\ found.strips = 0
                   /\ replace_trans(trans_table, raw) = trans_table[raw]
                   /\ trans_table[raw] = SyntheticPath(root1, root1[elem].parent)

\* A grandchild of the root element is about to be processed, after a lookup
\* that found its key.
C9_Witness ==
    /\ pc = "unique"
    /\ elem = 3
    /\ root1[3].parent = 2
    /\ lookup.kind = "found"
    /\ Len(SyntheticPath(root1, 2)) > Len(GetPath(root1, 2))

\* The first n - 1 characters of s.
FirstCharsBelow(s, n) == [j \in 1..(n - 1) |-> s[j]]

\* The fragment C5 expects in the path segment for a sanitized fragment s.
C5_Embedded(s) ==
    IF Len(s) > max_text_len THEN FirstCharsBelow(s, max_text_len) ELSE s

\* The synthetic path of the parent of element i as the table has it.
TableParentPath(i) ==
    IF root1[i].parent = 0 THEN <<>> ELSE trans_table[GetPath(root1, root1[i].parent)]

\* C5: fragment truncation. For every processed element, the fragment in its
\* path segment is the first max_text_len - 1 characters of the sanitized
\* fragment when that is longer than max_text_len, and the sanitized fragment
\* unchanged otherwise (max_text_len >= 1).
C5_FragmentTruncation ==
    \A i \in Processed :
        trans_table[GetPath(root1, i)] =
            TableParentPath(i) \o <<"/">> \o root1[i].tag
                \o C5_Embedded(Sanitize(UniqueFragment(root1[i], special_attribs)))

\* Some processed element has a sanitized fragment longer than max_text_len
\* that is cut to a non-empty prefix, and another has a fragment as long as
\* max_text_len, kept whole.
C5_Witness ==
    /\ max_text_len >= 2
    /\ \E i \in Processed :
          Len(Sanitize(UniqueFragment(root1[i], special_attribs))) > max_text_len
    /\ \E i \in Processed :
          Len(Sanitize(UniqueFragment(root1[i], special_attribs))) = max_text_len

\* The fragment C3 states: the value of the first name of special_attribs
\* the element has, whatever the value; the text only without such a name.
C3_Fragment(e) ==
    IF \E j \in 1..Len(special_attribs) : AttribHas(e.attrib, special_attribs[j])
    THEN LET first == CHOOSE j \in 1..Len(special_attribs) :
                         /\ AttribHas(e.attrib, special_attribs[j])
                         /\ \A k \in 1..(j - 1) : ~AttribHas(e.attrib, special_attribs[k])
         IN  AttribGet(e.attrib, special_attribs[first])
    ELSE IF e.text = None THEN <<>> ELSE e.text[1]

\* C3: the uniqueness fragment is the value of the first preferred attribute
\* the element has, in list order, also when that value is the empty string;
\* the text is used only when the element has none of the preferred
\* attributes.
C3_FirstPreferredAttribute ==
    \A i \in Processed :
        trans_table[GetPath(root1, i)] =
            TableParentPath(i) \o <<"/">> \o root1[i].tag
                \o Truncate(Sanitize(C3_Fragment(root1[i])), max_text_len)

---------------------------------------------------------------------------
(* Properties of XMLCompare, checked under Spec *)

\* The wrappers of a list.
Members(list) == {list[j] : j \in 1..Len(list)}

\* w1 and w2 are one member of a Python set: equal hashes and __eq__.
SameMember(w1, w2) == WrappedHash(w1) = WrappedHash(w2) /\ WrappedEq(w1, w2)

\* set(list1) == set(list2) as mutual inclusion of the members.
EqualAsSets(list1, list2) ==
    /\ \A w1 \in Members(list1) : \E w2 \in Members(list2) : SameMember(w1, w2)
    /\ \A w2 \in Members(list2) : \E w1 \in Members(list1) : SameMember(w1, w2)

\* C1: key partition. The Diff Report is exactly: each key of S1 - S2 with
\* an entry holding only M1[k] under 'root1'; each key of S2 - S1 with an
\* entry holding only M2[k] under 'root2'; each key of both with
\* set(M1[k]) != set(M2[k]) with an entry holding both lists; no other key.
C1_KeyPartition ==
    pc = "done" =>
        LET S1 == DOMAIN paths1
            S2 == DOMAIN paths2
            differing == {k \in S1 \cap S2 : ~EqualAsSets(paths1[k], paths2[k])}
        IN  /\ DOMAIN diff_items = (S1 \ S2) \cup (S2 \ S1) \cup differing
            /\ \A k \in S1 \ S2 :
                  /\ DOMAIN diff_items[k] = {"root1"}
                  /\ diff_items[k]["root1"] = paths1[k]
            /\ \A k \in S2 \ S1 :
                  /\ DOMAIN diff_items[k] = {"root2"}
                  /\ diff_items[k]["root2"] = paths2[k]
            /\ \A k \in differing :
                  /\ DOMAIN diff_items[k] = {"root1", "root2"}
                  /\ diff_items[k]["root1"] = paths1[k]
                  /\ diff_items[k]["root2"] = paths2[k]

\* The comparison is over with a key of each kind: only in document 1, only
\* in document 2, shared and reported, shared and not reported.
C1_Witness ==
    /\ pc = "done"
    /\ \E k \in DOMAIN diff_items : DOMAIN diff_items[k] = {"root1"}
    /\ \E k \in DOMAIN diff_items : DOMAIN diff_items[k] = {"root2"}
    /\ \E k \in DOMAIN diff_items : DOMAIN diff_items[k] = {"root1", "root2"}
    /\ \E k \in DOMAIN paths1 \cap DOMAIN paths2 : k \notin DOMAIN diff_items

\* Every wrapper the two path maps hold.
AllWrappers ==
    UNION ({Members(paths1[k]) : k \in DOMAIN paths1}
               \cup {Members(paths2[k]) : k \in DOMAIN paths2})

\* C2: equality is consistent with the hash. Two wrappers that __eq__ finds
\* equal (same attributes as an unordered mapping, same text) have the same
\* __hash__, also when their attributes are listed in a different order.
C2_EqualImpliesSameHash ==
    \A w1, w2 \in AllWrappers : WrappedEq(w1, w2) => WrappedHash(w1) = WrappedHash(w2)

\* The content of an element that __eq__ compares: attributes as a mapping, text.
Content(w) == [attrib |-> AttribDict(w.element.attrib), text |-> w.element.text]

\* The distinct contents of a list of wrappers.
Contents(list) == {Content(w) : w \in Members(list)}

\* C7: set-collapse. A path of both maps whose two lists hold the same
\* distinct contents (attributes + text) but a different number of wrappers
\* has no entry in the Diff Report.
C7_SetCollapse ==
    pc = "done" =>
        \A k \in DOMAIN paths1 \cap DOMAIN paths2 :
            (/\ Contents(paths1[k]) = Contents(paths2[k])
             /\ Len(paths1[k]) # Len(paths2[k]))
                => k \notin DOMAIN diff_items

\* tree2 is tree1 with the children of some elements put in another order:
\* a bijection of the elements that keeps parents and contents.
IsSiblingPermutation(tree1, tree2) ==
    /\ Len(tree1) = Len(tree2)
    /\ \E sigma \in [1..Len(tree1) -> 1..Len(tree1)] :
          /\ \A i, j \in 1..Len(tree1) : sigma[i] = sigma[j] => i = j
          /\ \A i \in 1..Len(tree1) :
                /\ tree2[sigma[i]].tag = tree1[i].tag
                /\ tree2[sigma[i]].attrib = tree1[i].attrib
                /\ tree2[sigma[i]].text = tree1[i].text
                /\ tree2[sigma[i]].parent =
                      IF tree1[i].parent = 0 THEN 0 ELSE sigma[tree1[i].parent]

\* C4: order-insensitivity. When root2 is root1 with siblings permuted, the
\* two Path Maps have the same keys and, per key, the same set of wrapper
\* contents, and the Diff Report is empty. (Checked for every permutation
\* of siblings, distinguishable by the heuristic or not.)
C4_OrderInsensitive ==
    (pc = "done" /\ IsSiblingPermutation(root1, root2)) =>
        /\ DOMAIN paths1 = DOMAIN paths2
        /\ \A k \in DOMAIN paths1 : Contents(paths1[k]) = Contents(paths2[k])
        /\ DOMAIN diff_items = {}

\* The compared documents differ in the order of two siblings that the
\* heuristic tells apart: every path of document 1 is unique.
C4_Witness ==
    /\ pc = "done"
    /\ root1 # root2
    /\ IsSiblingPermutation(root1, root2)
    /\ \A k \in DOMAIN paths1 : Len(paths1[k]) = 1
    /\ DOMAIN diff_items = {}

\* C8: reflexivity. Diffing a document against an identical copy yields an
\* empty Diff Report and the_same; the_same holds exactly when the Diff
\* Report is empty.
C8_Reflexive ==
    pc = "done" =>
        /\ root1 = root2 => (DOMAIN diff_items = {} /\ the_same)
        /\ the_same <=> diff_items = EmptyDict

\* A document of three elements, two of them on one path, has been compared
\* with its copy.
C8_Witness ==
    /\ pc = "done"
    /\ root1 = root2
    /\ Len(root1) = 3
    /\ \E k \in DOMAIN paths1 : Len(paths1[k]) = 2
    /\ the_same

---------------------------------------------------------------------------
(* The scenario of two <Item name="x"> siblings, checked under SpecScenario *)

\* The texts of the <V> children.
ScenarioTexts == { <<"1">>, <<"2">>, <<"3">> }

\* The text of an <Item> itself: none, or some text before its child.
ScenarioItemTexts == { None, Some(<<"w">>) }

\* <Root>
ScenarioRoot == [parent |-> 0, tag |-> <<"R", "o", "o", "t">>, attrib |-> <<>>, text |-> None]

\* <Item name="x"> below <Root>, with the text own
ScenarioItem(own) ==
    [parent |-> 1, tag |-> <<"I", "t", "e", "m">>,
     attrib |-> << <<"name", <<"x">>>> >>, text |-> own]

\* <V>t</V> below element parent
ScenarioV(parent, t) == [parent |-> parent, tag |-> <<"V">>, attrib |-> <<>>, text |-> Some(t)]

\* Document A has two <Item name="x"> whose <V> children differ in text,
\* document B has one <Item name="x">; name is the preferred attribute.
InitScenario ==
    /\ \E t1, t2 \in ScenarioTexts : \E own1, own2 \in ScenarioItemTexts :
          /\ t1 # t2
          /\ root1 = <<ScenarioRoot, ScenarioItem(own1), ScenarioV(2, t1),
                       ScenarioItem(own2), ScenarioV(4, t2)>>
    /\ \E t3 \in ScenarioTexts : \E own3 \in ScenarioItemTexts :
          root2 = <<ScenarioRoot, ScenarioItem(own3), ScenarioV(2, t3)>>
    /\ special_attribs = <<"name">>
    /\ max_text_len = DefaultMaxTextLen
    /\ pc = "paths1"
    /\ elem = 1
    /\ lookup = NoLookup
    /\ trans_table = EmptyDict
    /\ paths1 = EmptyDict
    /\ paths2 = EmptyDict
    /\ diff_items = EmptyDict

\* XMLCompare built for the two documents of the scenario.
SpecScenario == InitScenario /\ [][Next]_vars

\* The path of the <Item name="x"> elements: /Root/Itemx
ItemPath == <<"/", "R", "o", "o", "t", "/", "I", "t", "e", "m", "x">>

\* The path of a <V> with text t below an <Item name="x">.
VPath(t) == ItemPath \o <<"/", "V">> \o t

\* C6 as stated: the Item path has a list of 2 in A and of 1 in B, and the
\* Diff Report has an entry for that path holding both lists.
C6_ItemPathReported ==
    pc = "done" =>
        /\ Len(paths1[ItemPath]) = 2
        /\ Len(paths2[ItemPath]) = 1
        /\ ItemPath \in DOMAIN diff_items
        /\ diff_items[ItemPath] = EntryBoth(paths1[ItemPath], paths2[ItemPath])

\* C6 amended: the Item path has a list of 2 in A and of 1 in B; it has an
\* entry (holding both lists) exactly when the Items of A and of B differ as
\* sets of contents (attributes + own text). Items that differ only in their
\* children give no entry for the Item path: the difference is reported
\* under the paths of the <V> children, each path found in one document only
\* with that document's list alone.
C6_ItemPathCollapses ==
    pc = "done" =>
        /\ Len(paths1[ItemPath]) = 2
        /\ Len(paths2[ItemPath]) = 1
        /\ ItemPath \in DOMAIN diff_items
              <=> Contents(paths1[ItemPath]) # Contents(paths2[ItemPath])
        /\ ItemPath \in DOMAIN diff_items
              => diff_items[ItemPath] = EntryBoth(paths1[ItemPath], paths2[ItemPath])
        /\ (root1[2].text = root1[4].text /\ root1[2].text = root2[2].text)
              => ItemPath \notin DOMAIN diff_items
        /\ \A t \in ScenarioTexts :
              /\ (VPath(t) \in DOMAIN paths1 /\ VPath(t) \notin DOMAIN paths2)
                    => diff_items[VPath(t)] = EntryRoot1(paths1[VPath(t)])
              /\ (VPath(t) \in DOMAIN paths2 /\ VPath(t) \notin DOMAIN paths1)
                    => diff_items[VPath(t)] = EntryRoot2(paths2[VPath(t)])
              /\ (VPath(t) \in DOMAIN paths1 /\ VPath(t) \in DOMAIN paths2)
                    => VPath(t) \notin DOMAIN diff_items

\* The scenario as the specification writes it (no <Item> has text of its
\* own) has been compared: no entry for the Item path, one for a <V> path
\* of document A alone.
C6_Witness ==
    /\ pc = "done"
    /\ root1[2].text = None /\ root1[4].text = None /\ root2[2].text = None
    /\ Len(paths1[ItemPath]) = 2
    /\ Len(paths2[ItemPath]) = 1
    /\ ItemPath \notin DOMAIN diff_items
    /\ \E t \in ScenarioTexts :
          VPath(t) \in DOMAIN diff_items /\ DOMAIN diff_items[VPath(t)] = {"root1"}

====
